---- MODULE Spec2Model ----
(***************************************************************************)
(* Model of the Switch component of primitives/src/switch.rs.              *)
(*                                                                         *)
(* State: the props of one mounted Switch (the optional externally owned   *)
(* checked signal, default_checked, the reactive disabled / required /     *)
(* name / value signals and the on_checked_change callback), the internal  *)
(* cell of use_controlled, the element tree last rendered by Switch, the   *)
(* log of on_checked_change invocations, and the host's key state.         *)
(*                                                                         *)
(* The component runs inside a host toolkit (a browser DOM).  The host's   *)
(* native button semantics are the ones the component relies on: a button  *)
(* carrying the native disabled attribute receives no click and no key     *)
(* events; Enter activates a button on key-down unless the key-down        *)
(* handler called prevent_default; Space activates it on key-up.           *)
(***************************************************************************)
EXTENDS Integers, Sequences, FiniteSets, TLC

VARIABLES props_checked, default_checked, disabled, required, name, value,
          on_checked_change, internal_value, dom, calls, space_armed, last

vars == <<props_checked, default_checked, disabled, required, name, value,
          on_checked_change, internal_value, dom, calls, space_armed, last>>

\* Bound on the number of on_checked_change invocations that are recorded.
MaxCalls == 3

\* Option<Signal<bool>>: <<>> is None, <<b>> is Some(signal holding b).
None == <<>>
Some(b) == <<b>>
OptionBool == {None} \cup {Some(b) : b \in BOOLEAN}

\* Strings a caller may configure for name and value; "" and "on" are the
\* defaults of the two props.
Names == {"", "agree"}
Values == {"on", "yes"}

\* Keys delivered to onkeydown.
Keys == {"Enter", "Space", "Tab"}

\* The callbacks a caller may pass: the default one, which does nothing, and
\* one that stores the new value into the signal it passed as checked.
Callbacks == {"default", "store"}

-----------------------------------------------------------------------------
(* use_controlled(props.checked, props.default_checked, on_checked_change) *)

\* The cell use_controlled owns, seeded once at creation.
use_controlled_init(prop, default) == default

\* The readable value: the external cell when supplied, else the own cell.
use_controlled_value(prop, internal) ==
  IF prop # None THEN prop[1] ELSE internal

\* The setter's write to the own cell: none when externally owned.
use_controlled_set_internal(prop, internal, x) ==
  IF prop # None THEN internal ELSE x

\* What the caller's callback does to the signal the caller owns.
callback_effect(cb, prop, x) ==
  IF cb = "store" /\ prop # None THEN Some(x) ELSE prop

\* checked() as read by Switch in the current state.
checked == use_controlled_value(props_checked, internal_value)

-----------------------------------------------------------------------------
(* The element tree built by rsx! in Switch                                *)

data_state_inverted(c) == IF c THEN "unchecked" ELSE "checked"

data_state_static(c) == "unchecked"

data_state(c) == IF c THEN "checked" ELSE "unchecked"

data_disabled_only_when_disabled(d) == IF d THEN "true" ELSE ""

data_disabled(d) == IF d THEN "true" ELSE "false"

button_never_disabled(c, d, r, v) ==
  [type          |-> "button",
   role          |-> "switch",
   value         |-> v,
   aria_checked  |-> c,
   aria_required |-> r,
   disabled      |-> FALSE,
   data_state    |-> data_state(c),
   data_disabled |-> data_disabled(d)]

button_aria_unchecked(c, d, r, v) ==
  [type          |-> "button",
   role          |-> "switch",
   value         |-> v,
   aria_checked  |-> FALSE,
   aria_required |-> r,
   disabled      |-> d,
   data_state    |-> data_state(c),
   data_disabled |-> data_disabled(d)]

button(c, d, r, v) ==
  [type          |-> "button",
   role          |-> "switch",
   value         |-> v,
   aria_checked  |-> c,
   aria_required |-> r,
   disabled      |-> d,
   data_state    |-> data_state(c),
   data_disabled |-> data_disabled(d)]

input_value_on(c, d, n, v) ==
  [type        |-> "checkbox",
   aria_hidden |-> TRUE,
   tabindex    |-> -1,
   name        |-> n,
   value       |-> "on",
   checked     |-> c,
   disabled    |-> d]

input(c, d, n, v) ==
  [type        |-> "checkbox",
   aria_hidden |-> TRUE,
   tabindex    |-> -1,
   name        |-> n,
   value       |-> v,
   checked     |-> c,
   disabled    |-> d]

Switch(c, d, r, n, v) ==
  [button |-> button(c, d, r, v), input |-> input(c, d, n, v)]

-----------------------------------------------------------------------------
(* Event handlers                                                          *)

onclick_new_checked_same(c) == c

onclick_new_checked_on(c) == TRUE

\* onclick: let new_checked = !checked();
onclick_new_checked(c) == ~c

onkeydown_prevent_default_never(k) == FALSE

onkeydown_prevent_default_space(k) == k = "Space"

\* onkeydown: TRUE when the handler calls e.prevent_default().
onkeydown_prevent_default(k) == k = "Enter"

Event(t, k) == [type |-> t, key |-> k]

\* The state after the render that follows a change of the signals.
Rendered ==
  dom' = Switch(use_controlled_value(props_checked', internal_value'),
                disabled', required', name', value')

\* onclick running to completion: set_checked.call(new_checked).  The log of
\* invocations is kept up to MaxCalls entries.
RunOnClick ==
  LET new_checked == onclick_new_checked(checked) IN
    /\ Len(calls) < MaxCalls
    /\ internal_value' =
         use_controlled_set_internal(props_checked, internal_value, new_checked)
    /\ calls' = Append(calls, new_checked)
    /\ props_checked' = callback_effect(on_checked_change, props_checked, new_checked)

NoActivation == UNCHANGED <<props_checked, internal_value, calls>>

ConfigUnchanged ==
  UNCHANGED <<default_checked, disabled, required, name, value, on_checked_change>>

-----------------------------------------------------------------------------
Init ==
  /\ props_checked \in OptionBool
  /\ default_checked \in BOOLEAN
  /\ disabled \in BOOLEAN
  /\ required \in BOOLEAN
  /\ name \in Names
  /\ value \in Values
  /\ on_checked_change \in Callbacks
  /\ internal_value = use_controlled_init(props_checked, default_checked)
  /\ dom = Switch(use_controlled_value(props_checked, internal_value),
                  disabled, required, name, value)
  /\ calls = <<>>
  /\ space_armed = FALSE
  /\ last = Event("mount", "")

\* A pointer click on the button.  The host delivers it to onclick only when
\* the rendered button does not carry the native disabled attribute.
Click ==
  /\ IF dom.button.disabled THEN NoActivation ELSE RunOnClick
  /\ last' = Event("click", "")
  /\ ConfigUnchanged /\ UNCHANGED space_armed
  /\ Rendered

\* A key-down on the focused button.  onkeydown runs, then the host's default
\* action unless prevented: Enter activates the button, Space arms it.
KeyDown(k) ==
  /\ LET delivered == ~dom.button.disabled
         prevented == delivered /\ onkeydown_prevent_default(k)
     IN /\ IF delivered /\ ~prevented /\ k = "Enter"
           THEN RunOnClick ELSE NoActivation
        /\ space_armed' = IF delivered /\ ~prevented /\ k = "Space"
                          THEN TRUE ELSE space_armed
  /\ last' = Event("keydown", k)
  /\ ConfigUnchanged
  /\ Rendered

\* A key-up on the focused button.  The component has no onkeyup; the host
\* activates an enabled button when an armed Space is released.
KeyUp(k) ==
  /\ IF ~dom.button.disabled /\ k = "Space" /\ space_armed
     THEN RunOnClick ELSE NoActivation
  /\ space_armed' = IF k = "Space" THEN FALSE ELSE space_armed
  /\ last' = Event("keyup", k)
  /\ ConfigUnchanged
  /\ Rendered

\* The caller writes the signal it passed as checked.
SetCheckedSignal(v) ==
  /\ props_checked # None
  /\ props_checked' = Some(v)
  /\ last' = Event("set_checked", "")
  /\ UNCHANGED <<internal_value, calls, space_armed>>
  /\ ConfigUnchanged
  /\ Rendered

SetDisabled(v) ==
  /\ disabled # v
  /\ disabled' = v
  /\ last' = Event("set_disabled", "")
  /\ NoActivation
  /\ UNCHANGED <<default_checked, required, name, value, on_checked_change,
                 space_armed>>
  /\ Rendered

SetRequired(v) ==
  /\ required # v
  /\ required' = v
  /\ last' = Event("set_required", "")
  /\ NoActivation
  /\ UNCHANGED <<default_checked, disabled, name, value, on_checked_change,
                 space_armed>>
  /\ Rendered

SetName(v) ==
  /\ name # v
  /\ name' = v
  /\ last' = Event("set_name", "")
  /\ NoActivation
  /\ UNCHANGED <<default_checked, disabled, required, value, on_checked_change,
                 space_armed>>
  /\ Rendered

SetValue(v) ==
  /\ value # v
  /\ value' = v
  /\ last' = Event("set_value", "")
  /\ NoActivation
  /\ UNCHANGED <<default_checked, disabled, required, name, on_checked_change,
                 space_armed>>
  /\ Rendered

\* The host runs the component function again without any signal changing.
Rerender ==
  /\ last' = Event("render", "")
  /\ NoActivation
  /\ ConfigUnchanged /\ UNCHANGED space_armed
  /\ Rendered

Next ==
  \/ Click
  \/ \E k \in Keys : KeyDown(k)
  \/ \E k \in Keys : KeyUp(k)
  \/ \E v \in BOOLEAN : SetCheckedSignal(v)
  \/ \E v \in BOOLEAN : SetDisabled(v)
  \/ \E v \in BOOLEAN : SetRequired(v)
  \/ \E v \in Names : SetName(v)
  \/ \E v \in Values : SetValue(v)
  \/ Rerender

Spec == Init /\ [][Next]_vars

TypeOK ==
  /\ props_checked \in OptionBool
  /\ default_checked \in BOOLEAN
  /\ disabled \in BOOLEAN
  /\ required \in BOOLEAN
  /\ name \in Names
  /\ value \in Values
  /\ on_checked_change \in Callbacks
  /\ internal_value \in BOOLEAN
  /\ Len(calls) <= MaxCalls
  /\ space_armed \in BOOLEAN

-----------------------------------------------------------------------------
(* Vocabulary of the properties                                            *)

\* The step delivered a pointer click, a key-down or a key-up.
UserEventStep == last'.type \in {"click", "keydown", "keyup"}

\* The step is a pointer click on an enabled switch.
EnabledClickStep == ~disabled /\ last'.type = "click"

\* The step releases a Space that was pressed on the enabled switch.
EnabledSpaceStep ==
  ~disabled /\ space_armed /\ last'.type = "keyup" /\ last'.key = "Space"

\* The step is an activation: a pointer click or a Space release.
ActivationStep ==
  \/ last'.type = "click"
  \/ last'.type = "keyup" /\ last'.key = "Space"

Literal(c) == IF c THEN "checked" ELSE "unchecked"

Flip(c) == IF c THEN FALSE ELSE TRUE

-----------------------------------------------------------------------------
\* C1: while disabled = true, no click, key-down or key-up changes the
\* checked state or the cell of use_controlled, and none invokes
\* on_checked_change, whether or not an external checked signal is supplied.
C1_DisabledIgnoresEvents ==
  [][(disabled /\ UserEventStep) =>
       /\ checked' = checked
       /\ internal_value' = internal_value
       /\ props_checked' = props_checked
       /\ calls' = calls]_vars

\* A click arrived at a disabled switch that had been activated before.
C1_Witness ==
  /\ disabled
  /\ last.type = "click"
  /\ Len(calls) > 0

\* C2: with an external checked signal, a click on the enabled switch invokes
\* on_checked_change exactly once, with the negation of the signal's value,
\* and leaves the cell of use_controlled untouched; in every state what is
\* rendered is the value of the external signal.
C2_ControlledRoutesThroughCallback ==
  /\ [][(props_checked # None /\ EnabledClickStep) =>
          /\ calls' = Append(calls, Flip(props_checked[1]))
          /\ internal_value' = internal_value]_vars
  /\ [](props_checked # None =>
          /\ dom.button.data_state = Literal(props_checked[1])
          /\ dom.button.aria_checked = props_checked[1]
          /\ dom.input.checked = props_checked[1]
          /\ internal_value = default_checked)

\* A controlled switch was clicked twice and its caller stored both values.
C2_Witness ==
  /\ props_checked # None
  /\ on_checked_change = "store"
  /\ last.type = "click"
  /\ Len(calls) = 2
  /\ calls[1] # calls[2]

\* C3: without an external checked signal, a click on the enabled switch
\* inverts the checked value and invokes on_checked_change exactly once with
\* the inverted value; after n activations the checked value is
\* default_checked for even n and its negation for odd n.
C3_UncontrolledToggles ==
  /\ [][(props_checked = None /\ EnabledClickStep) =>
          /\ checked' = Flip(checked)
          /\ calls' = Append(calls, Flip(checked))]_vars
  /\ [](props_checked = None =>
          checked = IF Len(calls) % 2 = 0 THEN default_checked
                                          ELSE Flip(default_checked))

\* An uncontrolled switch was clicked three times.
C3_Witness ==
  /\ props_checked = None
  /\ last.type = "click"
  /\ Len(calls) = 3
  /\ checked = Flip(default_checked)

\* C4 as stated: in every state data-state is "checked" exactly when
\* aria-checked is true and exactly when the hidden checkbox is checked, and
\* a single click flips data-state and the hidden checkbox's checked value.
C4_Original ==
  /\ [](/\ dom.button.data_state \in {"checked", "unchecked"}
        /\ (dom.button.data_state = "checked") = dom.button.aria_checked
        /\ dom.button.aria_checked = dom.input.checked)
  /\ [][last'.type = "click" =>
          /\ dom'.button.data_state # dom.button.data_state
          /\ dom'.input.checked = Flip(dom.input.checked)]_vars

\* C4 amended: in every state the three views agree; on every click
\* data-state changes exactly when the hidden checkbox's checked value does;
\* a click on an enabled switch that is uncontrolled, or controlled with a
\* callback that stores the value, flips both; a click on a disabled switch,
\* or on a controlled switch whose callback does not write the signal,
\* changes neither.
C4_ViewsAgree ==
  /\ [](/\ dom.button.data_state \in {"checked", "unchecked"}
        /\ (dom.button.data_state = "checked") = dom.button.aria_checked
        /\ dom.button.aria_checked = dom.input.checked)
  /\ [][last'.type = "click" =>
          /\ (dom'.button.data_state # dom.button.data_state)
               = (dom'.input.checked # dom.input.checked)
          /\ IF ~disabled /\ (props_checked = None \/ on_checked_change = "store")
             THEN /\ dom'.button.data_state # dom.button.data_state
                  /\ dom'.button.aria_checked = Flip(dom.button.aria_checked)
                  /\ dom'.input.checked = Flip(dom.input.checked)
             ELSE /\ dom'.button.data_state = dom.button.data_state
                  /\ dom'.button.aria_checked = dom.button.aria_checked
                  /\ dom'.input.checked = dom.input.checked]_vars

\* A click has just turned a controlled, storing switch on in all three views.
C4_Witness ==
  /\ last.type = "click"
  /\ props_checked = Some(TRUE)
  /\ on_checked_change = "store"
  /\ Len(calls) = 1
  /\ calls[1] = TRUE
  /\ dom.button.data_state = "checked"
  /\ dom.button.aria_checked
  /\ dom.input.checked

\* C5 as stated: Enter never toggles and never invokes on_checked_change, and
\* Space on an enabled switch toggles the checked state.
C5_Original ==
  [][/\ (last'.type = "keydown" /\ last'.key = "Enter") =>
          (checked' = checked /\ calls' = calls)
     /\ EnabledSpaceStep => checked' = Flip(checked)]_vars

\* C5 amended: Enter never toggles and never invokes on_checked_change; Space
\* on an enabled switch invokes on_checked_change once with the inverted
\* value, and toggles the checked state when the switch is uncontrolled or
\* the callback stores the value in the external signal; otherwise the
\* checked state stays as it is.
C5_EnterSuppressedSpaceActivates ==
  [][/\ (last'.type = "keydown" /\ last'.key = "Enter") =>
          (checked' = checked /\ calls' = calls)
     /\ EnabledSpaceStep =>
          /\ calls' = Append(calls, Flip(checked))
          /\ checked' = IF props_checked = None \/ on_checked_change = "store"
                        THEN Flip(checked) ELSE checked]_vars

\* Enter was pressed on an enabled switch that Space had toggled once.
C5_Witness ==
  /\ ~disabled
  /\ last.type = "keydown"
  /\ last.key = "Enter"
  /\ Len(calls) = 1
  /\ checked = Flip(default_checked)
  /\ props_checked = None

\* C6: when the caller sets the external checked signal to v, the rendered
\* data-state becomes the literal of v, whatever default_checked is and
\* whatever was clicked before.
C6_ExternalSetRenders ==
  [][(last'.type = "set_checked") =>
       \A v \in BOOLEAN :
         props_checked' = Some(v) =>
           /\ dom'.button.data_state = Literal(v)
           /\ dom'.button.aria_checked = v
           /\ dom'.input.checked = v]_vars

\* The caller set the signal to true after clicks, with default_checked false.
C6_Witness ==
  /\ last.type = "set_checked"
  /\ props_checked = Some(TRUE)
  /\ ~default_checked
  /\ Len(calls) > 0
  /\ dom.button.data_state = "checked"

\* C7: the first rendering of an uncontrolled switch has data-state and
\* aria-checked equal to default_checked, whatever disabled, required, name
\* and value are.
C7_InitialRendering ==
  (last.type = "mount" /\ props_checked = None) =>
     /\ dom.button.data_state = Literal(default_checked)
     /\ dom.button.aria_checked = default_checked

\* An uncontrolled, disabled, required switch mounted with default_checked.
C7_Witness ==
  /\ last.type = "mount"
  /\ props_checked = None
  /\ default_checked
  /\ disabled
  /\ required
  /\ name = "agree"
  /\ value = "yes"
  /\ dom.button.data_state = "checked"

\* C8: the hidden checkbox always carries the configured name and value, and
\* no click or key event changes either.
C8_HiddenInputNameValue ==
  /\ [](dom.input.name = name /\ dom.input.value = value)
  /\ [][(UserEventStep \/ checked' # checked) =>
          /\ dom'.input.name = dom.input.name
          /\ dom'.input.value = dom.input.value]_vars

\* A click toggled a switch configured with a name and a non-default value.
C8_Witness ==
  /\ last.type = "click"
  /\ Len(calls) > 0
  /\ name = "agree"
  /\ value = "yes"
  /\ dom.input.value = "yes"

\* C9 as stated: every change of the checked state is caused by an
\* activation, and from either state an activation on an enabled switch can
\* reach the other state.
C9_Original ==
  /\ [][checked' # checked => ActivationStep]_vars
  /\ []((~disabled /\ Len(calls) < MaxCalls) =>
          ENABLED (Click /\ checked' = Flip(checked)))

\* C9 amended: the checked state has two values; every change of it is
\* caused by an activation or, on a controlled switch, by the caller writing
\* the external signal; an activation on an enabled switch that is
\* uncontrolled or whose callback stores the value reaches the other state.
C9_TwoStateMachine ==
  /\ [][checked' # checked =>
          \/ ActivationStep /\ calls' = Append(calls, checked')
          \/ props_checked # None /\ last'.type = "set_checked"]_vars
  /\ [](checked \in BOOLEAN)
  /\ []((/\ ~disabled
         /\ Len(calls) < MaxCalls
         /\ (props_checked = None \/ on_checked_change = "store")) =>
          ENABLED (Click /\ checked' = Flip(checked)))

\* An uncontrolled switch went on and off again, then was re-rendered.
C9_Witness ==
  /\ props_checked = None
  /\ Len(calls) = 2
  /\ calls[1] # calls[2]
  /\ checked = default_checked
  /\ last.type = "render"

\* C10: the button's disabled attribute, its data-disabled attribute and the
\* hidden checkbox's disabled attribute all show the current disabled prop.
C10_DisabledMirrored ==
  /\ dom.button.disabled = disabled
  /\ dom.button.data_disabled = (IF disabled THEN "true" ELSE "false")
  /\ dom.input.disabled = disabled

\* The switch was toggled, then enabled again after having been disabled.
C10_Witness ==
  /\ ~disabled
  /\ last.type = "set_disabled"
  /\ Len(calls) > 0
  /\ dom.button.data_disabled = "false"
====
